---- MODULE Spec2Model ----
(***************************************************************************)
(* Batch image generation of services/geminiService.ts: generateSingleImage *)
(* (one provider call, parsed into a GeneratedImage or a thrown Error) and  *)
(* generateBatchImages (count concurrent calls, a closure-local counter, a  *)
(* progress callback per settlement, Promise.all, then the filter).         *)
(* The runtime is the single-threaded JavaScript event loop: the code that  *)
(* runs between two awaits is one atomic step.                              *)
(***************************************************************************)
EXTENDS Integers, Sequences, FiniteSets, TLC

VARIABLES
    pc,           \* per invocation: "idle", "awaiting" (at await Promise.all), "done", "rejected"
    args,         \* per invocation: the arguments of generateBatchImages
    completed,    \* per invocation: the closure variable `completed`
    promises,     \* per invocation: the array `promises`, one entry per item
    returned,     \* per invocation: the array the invocation resolved with
    progressLog,  \* per invocation: the arguments onProgress was called with, in order
    settled,      \* per invocation: the outcomes of generateSingleImage, in settlement order
    calls,        \* every ai.models.generateContent request issued so far, in order
    now,          \* the clock read by Date.now()
    one,          \* a direct call of generateSingleImage: its arguments, request and result
    gate,         \* window.aistudio, and the calls of the two credential functions
    app,          \* the React state of App: apiKeyReady, prompt, config, images, status
    handler,      \* per invocation: where its handleGenerate call stands
    editedInFlight \* the invocations during whose flight the user edited the gallery

batchVars == <<pc, args, completed, promises, returned, progressLog, settled, calls>>
unitVars == <<one, gate>>
appVars == <<app, handler, editedInFlight>>
vars == <<pc, args, completed, promises, returned, progressLog, settled, calls, now,
          one, gate, app, handler, editedInFlight>>

----------------------------------------------------------------------------
(* Bounds of the model *)

\* at most this many provider calls are launched in one run, over all invocations
MaxCalls == 3
\* the clock advances at most this far
MaxTime == 1

\* the invocations of generateBatchImages that may be in flight together
Batches == {"A", "B"}

\* (prompt, systemInstruction, aspectRatio) triples a caller passes
Requests ==
    { [prompt |-> "a cat", systemInstruction |-> "", aspectRatio |-> "1:1"],
      [prompt |-> "a dog", systemInstruction |-> "Be vivid.", aspectRatio |-> "16:9"] }

\* an onProgress callback, as the set of arguments on which it throws; the
\* callback handleGenerate passes only calls setStatus and throws on none
AppCallback == {}

----------------------------------------------------------------------------
(* Values *)

\* JavaScript null / undefined, and a present value, as a sequence of length <= 1
Null == <<>>
Some(v) == <<v>>

TextPart(t) == [text |-> Some(t), inlineData |-> Null]
InlinePart(d) == [text |-> Null, inlineData |-> Some([data |-> d])]

\* one candidate whose content holds the given parts
Candidate(parts) == [content |-> Some([parts |-> Some(parts)])]

\* the provider answered with this response object
Answered(resp) == [rejects |-> FALSE, message |-> "", response |-> resp]
\* the provider call rejected with an error carrying this message
Failed(msg) == [rejects |-> TRUE, message |-> msg, response |-> [candidates |-> Null]]

\* the outcomes of one ai.models.generateContent call the model draws from
ProviderOutcomes ==
    { Answered([candidates |-> Some(<<Candidate(<<TextPart("Here you go"),
                                                  InlinePart("AAA"),
                                                  InlinePart("BBB")>>)>>)]),
      Answered([candidates |-> Some(<<Candidate(<<TextPart("I cannot draw that")>>)>>)]),
      Answered([candidates |-> Some(<<Candidate(<<InlinePart("")>>)>>)]),
      Answered([candidates |-> Some(<<[content |-> Some([parts |-> Null])]>>)]),
      Answered([candidates |-> Some(<<>>)]),
      Answered([candidates |-> Null]),
      Failed("Requested entity was not found"),
      Failed("") }

----------------------------------------------------------------------------
(* generateSingleImage *)

\* MUTANT: the prompt first and the persona after it
FullPrompt_PromptFirst(systemInstruction, prompt) ==
    IF systemInstruction # ""
    THEN prompt \o "\n\nUser Request: " \o systemInstruction
    ELSE prompt

\* the text sent to the provider
FullPrompt(systemInstruction, prompt) ==
    IF systemInstruction # ""
    THEN systemInstruction \o "\n\nUser Request: " \o prompt
    ELSE prompt

\* the request object handed to ai.models.generateContent
ProviderRequest(prompt, systemInstruction, aspectRatio) ==
    [ model |-> "gemini-3-pro-image-preview",
      text |-> FullPrompt(systemInstruction, prompt),
      aspectRatio |-> aspectRatio,
      imageSize |-> "1K" ]

\* MUTANT: the loop without its break: the last part with data wins
RECURSIVE FirstInlineData_Last(_)
FirstInlineData_Last(parts) ==
    IF parts = <<>> THEN ""
    ELSE IF FirstInlineData_Last(Tail(parts)) # ""
         THEN FirstInlineData_Last(Tail(parts))
         ELSE IF Head(parts).inlineData # Null
              THEN Head(parts).inlineData[1].data
              ELSE ""

\* the for loop over the parts: the data of the first part that has inlineData
\* with non-empty data, '' when there is none
RECURSIVE FirstInlineData(_)
FirstInlineData(parts) ==
    IF parts = <<>> THEN ""
    ELSE IF Head(parts).inlineData # Null /\ Head(parts).inlineData[1].data # ""
         THEN Head(parts).inlineData[1].data
         ELSE FirstInlineData(Tail(parts))

\* the message of the TypeError the runtime throws on reading a property of undefined
TypeErrorMessage(property) ==
    "Cannot read properties of undefined (reading '" \o property \o "')"

\* the body of the try block after the await: [threw, message, base64Data]
ParseResponse(response) ==
    IF response.candidates = Null
    THEN [threw |-> FALSE, message |-> "", base64Data |-> ""]
    ELSE IF response.candidates[1] = <<>>
    THEN [threw |-> TRUE, message |-> TypeErrorMessage("content"), base64Data |-> ""]
    ELSE IF response.candidates[1][1].content = Null
    THEN [threw |-> TRUE, message |-> TypeErrorMessage("parts"), base64Data |-> ""]
    ELSE IF response.candidates[1][1].content[1].parts = Null
    THEN [threw |-> FALSE, message |-> "", base64Data |-> ""]
    ELSE [threw |-> FALSE, message |-> "",
          base64Data |-> FirstInlineData(response.candidates[1][1].content[1].parts[1])]

\* MUTANT: the catch block rethrows the message as it is, without the fallback
RethrownMessage_NoFallback(message) == message

\* the message of the Error the catch block rethrows
RethrownMessage(message) ==
    IF message # "" THEN message ELSE "Failed to generate image"

\* MUTANT: the record is built with a fixed aspect ratio
MakeImage_DefaultRatio(id, base64Data, prompt, timestamp, aspectRatio) ==
    [ id |-> id,
      base64 |-> "data:image/png;base64," \o base64Data,
      prompt |-> prompt,
      timestamp |-> timestamp,
      selected |-> FALSE,
      aspectRatio |-> "1:1" ]

\* MUTANT: the record is built without the selected flag
MakeImage_NoSelected(id, base64Data, prompt, timestamp, aspectRatio) ==
    [ id |-> id,
      base64 |-> "data:image/png;base64," \o base64Data,
      prompt |-> prompt,
      timestamp |-> timestamp,
      aspectRatio |-> aspectRatio ]

\* the record generateSingleImage returns on success
MakeImage(id, base64Data, prompt, timestamp, aspectRatio) ==
    [ id |-> id,
      base64 |-> "data:image/png;base64," \o base64Data,
      prompt |-> prompt,
      timestamp |-> timestamp,
      selected |-> FALSE,
      aspectRatio |-> aspectRatio ]

\* MUTANT: no check of base64Data: a response without image data yields an
\* image with an empty payload
GenerateSingleImage_EmptyPayload(prompt, systemInstruction, aspectRatio, outcome, id, timestamp) ==
    IF outcome.rejects
    THEN [ok |-> FALSE, img |-> Null, message |-> RethrownMessage(outcome.message)]
    ELSE LET parsed == ParseResponse(outcome.response) IN
         IF parsed.threw
         THEN [ok |-> FALSE, img |-> Null, message |-> RethrownMessage(parsed.message)]
         ELSE [ok |-> TRUE,
               img |-> Some(MakeImage(id, parsed.base64Data, prompt, timestamp, aspectRatio)),
               message |-> ""]

\* generateSingleImage once its provider call has settled with `outcome`:
\* [ok |-> TRUE, img] when it returns, [ok |-> FALSE, message] when it throws
GenerateSingleImage(prompt, systemInstruction, aspectRatio, outcome, id, timestamp) ==
    IF outcome.rejects
    THEN [ok |-> FALSE, img |-> Null, message |-> RethrownMessage(outcome.message)]
    ELSE LET parsed == ParseResponse(outcome.response) IN
         IF parsed.threw
         THEN [ok |-> FALSE, img |-> Null, message |-> RethrownMessage(parsed.message)]
         ELSE IF parsed.base64Data = ""
         THEN [ok |-> FALSE, img |-> Null,
               message |-> RethrownMessage("No image data found in response")]
         ELSE [ok |-> TRUE,
               img |-> Some(MakeImage(id, parsed.base64Data, prompt, timestamp, aspectRatio)),
               message |-> ""]

----------------------------------------------------------------------------
(* generateBatchImages *)

\* generateId(): Math.random drawn as a token no other call draws; the token
\* names the invocation and the item whose call drew it
GenerateId(b, i) == <<b, i>>

\* MUTANT: `completed` declared at module level, one counter for all invocations
RECURSIVE SumOver(_, _)
SumOver(comp, S) ==
    IF S = {} THEN 0
    ELSE LET x == CHOOSE y \in S : TRUE IN comp[x] + SumOver(comp, S \ {x})
ClosureCounter_Shared(comp, b) == SumOver(comp, DOMAIN comp)

\* the closure variable `completed` of invocation b
ClosureCounter(comp, b) == comp[b]

\* MUTANT: one item too many (length: count + 1)
ItemIndexes_OffByOne(count) == 1..(count + 1)

\* MUTANT: never an empty batch (length: count || 1)
ItemIndexes_AtLeastOne(count) == 1..(IF count = 0 THEN 1 ELSE count)

\* Array.from({ length: count }): the items of one invocation
ItemIndexes(count) == 1..count

\* Array.from({ length: count }).map(...): the requests issued while the
\* array of promises is built, one per item, before the first await returns
LaunchRequests(req, count) ==
    [i \in ItemIndexes(count) |->
        ProviderRequest(req.prompt, req.systemInstruction, req.aspectRatio)]

\* does this onProgress throw when called with n
OnProgressThrows(onProgress, n) == n \in onProgress

\* MUTANT: the catch block neither counts the failure nor reports progress
ItemTask_SilentFailure(c, r, onProgress) ==
    IF r.ok
    THEN [completed |-> c + 1, progress |-> <<c + 1>>,
          promise |-> [state |-> "fulfilled", value |-> r.img]]
    ELSE [completed |-> c, progress |-> <<>>,
          promise |-> [state |-> "fulfilled", value |-> Null]]

\* MUTANT: the catch block rethrows after reporting progress
ItemTask_Rethrow(c, r, onProgress) ==
    IF r.ok
    THEN [completed |-> c + 1, progress |-> <<c + 1>>,
          promise |-> [state |-> "fulfilled", value |-> r.img]]
    ELSE [completed |-> c + 1, progress |-> <<c + 1>>,
          promise |-> [state |-> "rejected", value |-> Null]]

\* MUTANT: the catch block returns a placeholder image instead of null
ItemTask_Placeholder(c, r, onProgress) ==
    IF r.ok
    THEN [completed |-> c + 1, progress |-> <<c + 1>>,
          promise |-> [state |-> "fulfilled", value |-> r.img]]
    ELSE [completed |-> c + 1, progress |-> <<c + 1>>,
          promise |-> [state |-> "fulfilled",
                       value |-> Some(MakeImage(<<"failed", c + 1>>, "", "", 0, ""))]]

\* MUTANT: onProgress(completed) before completed++
ItemTask_ReportBeforeIncrement(c, r, onProgress) ==
    [completed |-> c + 1, progress |-> <<c>>,
     promise |-> [state |-> "fulfilled", value |-> r.img]]

\* the async arrow of one item from the settlement of generateSingleImage on:
\* c is `completed` before, r the outcome of generateSingleImage. The result is
\* `completed` after, the onProgress calls made, and the item's promise.
ItemTask(c, r, onProgress) ==
    IF r.ok
    THEN IF ~OnProgressThrows(onProgress, c + 1)
         THEN [completed |-> c + 1, progress |-> <<c + 1>>,
               promise |-> [state |-> "fulfilled", value |-> r.img]]
         ELSE \* onProgress threw inside try: the catch block runs as for a failure
              IF ~OnProgressThrows(onProgress, c + 2)
              THEN [completed |-> c + 2, progress |-> <<c + 1, c + 2>>,
                    promise |-> [state |-> "fulfilled", value |-> Null]]
              ELSE [completed |-> c + 2, progress |-> <<c + 1, c + 2>>,
                    promise |-> [state |-> "rejected", value |-> Null]]
    ELSE IF ~OnProgressThrows(onProgress, c + 1)
         THEN [completed |-> c + 1, progress |-> <<c + 1>>,
               promise |-> [state |-> "fulfilled", value |-> Null]]
         ELSE [completed |-> c + 1, progress |-> <<c + 1>>,
               promise |-> [state |-> "rejected", value |-> Null]]

\* Promise.all rejects as soon as one promise is rejected
AnyRejected(ps) == \E i \in 1..Len(ps) : ps[i].state = "rejected"

\* MUTANT: Promise.any in place of Promise.all
AllFulfilled_Any(ps) == \E i \in 1..Len(ps) : ps[i].state = "fulfilled"

\* MUTANT: the batch waits until every item has produced an image
AllFulfilled_AllSucceeded(ps) ==
    \A i \in 1..Len(ps) : ps[i].state = "fulfilled" /\ ps[i].value # Null

\* Promise.all fulfils once every promise is fulfilled
AllFulfilled(ps) == \A i \in 1..Len(ps) : ps[i].state = "fulfilled"

\* the value Promise.all fulfils with: the promises' values by index
SettledResults(ps) == [i \in 1..Len(ps) |-> ps[i].value]

\* MUTANT: the loop stops at the first failed item (a for loop with break)
RECURSIVE FilterResults_UntilNull(_)
FilterResults_UntilNull(settledResults) ==
    IF settledResults = <<>> THEN <<>>
    ELSE IF Head(settledResults) # Null
         THEN <<Head(settledResults)[1]>> \o FilterResults_UntilNull(Tail(settledResults))
         ELSE <<>>

\* MUTANT: results.unshift(res) in place of results.push(res)
RECURSIVE FilterResults_Unshift(_)
FilterResults_Unshift(settledResults) ==
    IF settledResults = <<>> THEN <<>>
    ELSE IF Head(settledResults) # Null
         THEN FilterResults_Unshift(Tail(settledResults)) \o <<Head(settledResults)[1]>>
         ELSE FilterResults_Unshift(Tail(settledResults))

\* settledResults.forEach(res => { if (res) results.push(res) })
RECURSIVE FilterResults(_)
FilterResults(settledResults) ==
    IF settledResults = <<>> THEN <<>>
    ELSE IF Head(settledResults) # Null
         THEN <<Head(settledResults)[1]>> \o FilterResults(Tail(settledResults))
         ELSE FilterResults(Tail(settledResults))

RECURSIVE SumLen(_, _)
SumLen(f, S) ==
    IF S = {} THEN 0
    ELSE LET b == CHOOSE x \in S : TRUE IN Len(f[b]) + SumLen(f, S \ {b})

\* provider calls launched so far, over all invocations
Launched == SumLen(calls, Batches)

NoArgs == [prompt |-> "", systemInstruction |-> "", aspectRatio |-> "", count |-> 0,
           onProgress |-> {}]

\* no direct call of generateSingleImage has been made
OneIdle == [pc |-> "idle", prompt |-> "", systemInstruction |-> "", aspectRatio |-> "",
            request |-> Null, outcome |-> Null, img |-> Null, message |-> ""]

\* no credential function has been called in environment env
GateIdle(env) == [env |-> env,
                  check |-> "idle", answer |-> "", value |-> FALSE,
                  prompt |-> "idle", dialog |-> "", opened |-> 0]

\* a hosting environment without window.aistudio
NoAistudio == [aistudio |-> Null]

\* useState<GenerationState>: the status before and after a batch
IdleStatus == [isLoading |-> FALSE, error |-> Null, progress |-> 0]

\* the initial config.systemPrompt
DefaultSystemPrompt ==
    "You are a creative artistic assistant. Generate high-quality, detailed, and visually stunning images based on the user's request. Focus on lighting, texture, and composition."

\* the useState initial values of App
AppInitial ==
    [ apiKeyReady |-> FALSE,
      prompt |-> "",
      config |-> [systemPrompt |-> DefaultSystemPrompt, imageCount |-> 4,
                  aspectRatio |-> "1:1"],
      images |-> <<>>,
      status |-> IdleStatus ]

Init ==
    /\ one = OneIdle
    /\ gate = GateIdle(NoAistudio)
    /\ app = AppInitial
    /\ handler = [b \in Batches |-> "idle"]
    /\ editedInFlight = {}
    /\ pc = [b \in Batches |-> "idle"]
    /\ args = [b \in Batches |-> NoArgs]
    /\ completed = [b \in Batches |-> 0]
    /\ promises = [b \in Batches |-> <<>>]
    /\ returned = [b \in Batches |-> <<>>]
    /\ progressLog = [b \in Batches |-> <<>>]
    /\ settled = [b \in Batches |-> <<>>]
    /\ calls = [b \in Batches |-> <<>>]
    /\ now = 0

\* a caller invokes generateBatchImages: the synchronous part up to the await
GenerateBatchImages(b, req, count, onProgress) ==
    /\ pc[b] = "idle"
    /\ Launched + count <= MaxCalls
    /\ args' = [args EXCEPT ![b] = [prompt |-> req.prompt,
                                     systemInstruction |-> req.systemInstruction,
                                     aspectRatio |-> req.aspectRatio,
                                     count |-> count,
                                     onProgress |-> onProgress]]
    /\ completed' = [completed EXCEPT ![b] = 0]
    /\ calls' = [calls EXCEPT ![b] = LaunchRequests(req, count)]
    /\ promises' = [promises EXCEPT ![b] =
                        [i \in ItemIndexes(count) |-> [state |-> "pending", value |-> Null]]]
    /\ pc' = [pc EXCEPT ![b] = "awaiting"]
    /\ UNCHANGED <<returned, progressLog, settled, now>>

\* the provider call of item i of invocation b settles with `outcome`:
\* generateSingleImage finishes and the item's async arrow runs to its end
Settle(b, i, outcome) ==
    /\ pc[b] # "idle"
    /\ i \in 1..Len(promises[b])
    /\ promises[b][i].state = "pending"
    /\ LET r == GenerateSingleImage(args[b].prompt, args[b].systemInstruction,
                                    args[b].aspectRatio, outcome, GenerateId(b, i), now)
           t == ItemTask(ClosureCounter(completed, b), r, args[b].onProgress)
       IN /\ completed' = [completed EXCEPT ![b] = t.completed]
          /\ progressLog' = [progressLog EXCEPT ![b] = @ \o t.progress]
          /\ promises' = [promises EXCEPT ![b][i] = t.promise]
          /\ settled' = [settled EXCEPT ![b] =
                            Append(@, [item |-> i, ok |-> r.ok, img |-> r.img])]
    /\ UNCHANGED <<pc, args, returned, calls, now>>

\* the continuation of `await Promise.all(promises)`: the invocation rejects if
\* a promise rejected, and otherwise filters and returns once all are fulfilled
AwaitAll(b) ==
    /\ pc[b] = "awaiting"
    /\ IF AnyRejected(promises[b])
       THEN /\ pc' = [pc EXCEPT ![b] = "rejected"]
            /\ UNCHANGED returned
       ELSE /\ AllFulfilled(promises[b])
            /\ returned' = [returned EXCEPT ![b] =
                                FilterResults(SettledResults(promises[b]))]
            /\ pc' = [pc EXCEPT ![b] = "done"]
    /\ UNCHANGED <<args, completed, promises, progressLog, settled, calls, now>>

\* time passes
Tick ==
    /\ now < MaxTime
    /\ now' = now + 1
    /\ UNCHANGED <<pc, args, completed, promises, returned, progressLog, settled, calls>>

Next ==
    \/ \E b \in Batches, req \in Requests, count \in 0..MaxCalls :
          GenerateBatchImages(b, req, count, AppCallback) /\ UNCHANGED <<unitVars, appVars>>
    \/ \E b \in Batches : \E i \in DOMAIN promises[b], outcome \in ProviderOutcomes :
          Settle(b, i, outcome) /\ UNCHANGED <<unitVars, appVars>>
    \/ \E b \in Batches : AwaitAll(b) /\ UNCHANGED <<unitVars, appVars>>
    \/ Tick /\ UNCHANGED <<unitVars, appVars>>

Spec == Init /\ [][Next]_vars

\* The event loop runs every queued continuation, and the premise of the
\* termination claim is that every launched provider call settles: while an
\* invocation has a pending call, one of its calls settles.
Fairness ==
    /\ \A b \in Batches : WF_vars(AwaitAll(b) /\ UNCHANGED <<unitVars, appVars>>)
    /\ \A b \in Batches :
          WF_vars(\E i \in DOMAIN promises[b], outcome \in ProviderOutcomes :
                      Settle(b, i, outcome) /\ UNCHANGED <<unitVars, appVars>>)

FairSpec == Init /\ [][Next]_vars /\ Fairness

----------------------------------------------------------------------------
(* generateBatchImages with any caller-supplied onProgress *)

\* callbacks a caller may pass, each as the set of arguments on which it
\* throws: none, the first report, the second, or both
ThrowingCallbacks == {{}, {1}, {2}, {1, 2}}

ThrowNext ==
    \/ \E b \in Batches, req \in Requests, count \in 0..MaxCalls :
          \E onProgress \in ThrowingCallbacks :
              GenerateBatchImages(b, req, count, onProgress) /\ UNCHANGED <<unitVars, appVars>>
    \/ \E b \in Batches : \E i \in DOMAIN promises[b], outcome \in ProviderOutcomes :
          Settle(b, i, outcome) /\ UNCHANGED <<unitVars, appVars>>
    \/ \E b \in Batches : AwaitAll(b) /\ UNCHANGED <<unitVars, appVars>>
    \/ Tick /\ UNCHANGED <<unitVars, appVars>>

ThrowSpec == Init /\ [][ThrowNext]_vars

----------------------------------------------------------------------------
(* generateSingleImage called on its own, and the credential functions *)

\* the arguments a direct caller of generateSingleImage passes
UnitPrompts == {"a cat", ""}
UnitInstructions == {"", " ", "Be vivid."}
UnitRatios == {"1:1", "16:9", "4:5"}

\* further provider outcomes, beside ProviderOutcomes
UnitOutcomes ==
    ProviderOutcomes \cup
    { Answered([candidates |-> Some(<<Candidate(<<InlinePart(""), TextPart("caption"),
                                                  InlinePart("BBB"),
                                                  InlinePart("CCC")>>)>>)]),
      Answered([candidates |-> Some(<<Candidate(<<TextPart("one"), TextPart("two")>>)>>)]),
      Answered([candidates |-> Some(<<Candidate(<<>>)>>)]),
      Answered([candidates |-> Some(<<[content |-> Null]>>)]),
      Failed("fetch failed") }

\* window.aistudio: absent, or present with or without each of its two methods
Environments ==
    { NoAistudio } \cup
    { [aistudio |-> Some([hasSelectedApiKey |-> h, openSelectKey |-> o])] :
        h \in BOOLEAN, o \in BOOLEAN }

\* what window.aistudio.hasSelectedApiKey() does when it is called
GateAnswers == {"true", "false", "rejects"}
\* what window.aistudio.openSelectKey() does when it is called
Dialogs == {"resolves", "rejects"}

\* MUTANT: without the capability the check answers false
CheckApiKeySelection_FallbackFalse(env, answer) ==
    IF env.aistudio # Null /\ env.aistudio[1].hasSelectedApiKey
    THEN [threw |-> answer = "rejects", value |-> answer = "true"]
    ELSE [threw |-> FALSE, value |-> FALSE]

\* checkApiKeySelection in environment env, where the gate would answer `answer`
CheckApiKeySelection(env, answer) ==
    IF env.aistudio # Null /\ env.aistudio[1].hasSelectedApiKey
    THEN [threw |-> answer = "rejects", value |-> answer = "true"]
    ELSE [threw |-> FALSE, value |-> TRUE]

\* promptApiKeySelection in environment env, where the dialog would end as `dialog`
PromptApiKeySelection(env, dialog) ==
    IF env.aistudio # Null /\ env.aistudio[1].openSelectKey
    THEN [threw |-> dialog = "rejects", opened |-> 1]
    ELSE [threw |-> FALSE, opened |-> 0]

\* the page runs in some hosting environment
UnitInit ==
    /\ app = AppInitial
    /\ handler = [b \in Batches |-> "idle"]
    /\ editedInFlight = {}
    /\ one = OneIdle
    /\ gate \in {GateIdle(env) : env \in Environments}
    /\ pc = [b \in Batches |-> "idle"]
    /\ args = [b \in Batches |-> NoArgs]
    /\ completed = [b \in Batches |-> 0]
    /\ promises = [b \in Batches |-> <<>>]
    /\ returned = [b \in Batches |-> <<>>]
    /\ progressLog = [b \in Batches |-> <<>>]
    /\ settled = [b \in Batches |-> <<>>]
    /\ calls = [b \in Batches |-> <<>>]
    /\ now = 0

\* generateSingleImage is called: the code up to the await of the provider call
GenerateOneCall(prompt, systemInstruction, aspectRatio) ==
    /\ one.pc = "idle"
    /\ one' = [one EXCEPT !.pc = "pending",
                           !.prompt = prompt,
                           !.systemInstruction = systemInstruction,
                           !.aspectRatio = aspectRatio,
                           !.request = Some(ProviderRequest(prompt, systemInstruction,
                                                            aspectRatio))]
    /\ UNCHANGED <<batchVars, now, gate, appVars>>

\* the provider call settles with `outcome`: generateSingleImage returns or throws
GenerateOneSettle(outcome) ==
    /\ one.pc = "pending"
    /\ LET r == GenerateSingleImage(one.prompt, one.systemInstruction, one.aspectRatio,
                                    outcome, GenerateId("one", 1), now)
       IN one' = [one EXCEPT !.pc = IF r.ok THEN "returned" ELSE "threw",
                              !.outcome = Some(outcome),
                              !.img = r.img,
                              !.message = r.message]
    /\ UNCHANGED <<batchVars, now, gate, appVars>>

\* checkApiKeySelection runs to its end
CheckApiKeySelectionCall(answer) ==
    /\ gate.check = "idle"
    /\ LET r == CheckApiKeySelection(gate.env, answer)
       IN gate' = [gate EXCEPT !.check = IF r.threw THEN "rejected" ELSE "returned",
                                !.answer = answer,
                                !.value = r.value]
    /\ UNCHANGED <<batchVars, now, one, appVars>>

\* promptApiKeySelection runs to its end
PromptApiKeySelectionCall(dialog) ==
    /\ gate.prompt = "idle"
    /\ LET r == PromptApiKeySelection(gate.env, dialog)
       IN gate' = [gate EXCEPT !.prompt = IF r.threw THEN "rejected" ELSE "returned",
                                !.dialog = dialog,
                                !.opened = @ + r.opened]
    /\ UNCHANGED <<batchVars, now, one, appVars>>

UnitNext ==
    \/ \E p \in UnitPrompts, s \in UnitInstructions, a \in UnitRatios :
          GenerateOneCall(p, s, a)
    \/ \E outcome \in UnitOutcomes : GenerateOneSettle(outcome)
    \/ \E answer \in GateAnswers : CheckApiKeySelectionCall(answer)
    \/ \E dialog \in Dialogs : PromptApiKeySelectionCall(dialog)
    \/ Tick /\ UNCHANGED <<unitVars, appVars>>

UnitSpec == UnitInit /\ [][UnitNext]_vars

----------------------------------------------------------------------------
(* App: the React component that calls the service *)

\* texts the user types into the prompt field
AppPrompts == {"", "  ", "a cat"}

\* MUTANT: the prompt is tested as it was typed, `if (!prompt) return`
Trim_Identity(text) == text

\* String.prototype.trim on the texts of AppPrompts
Trim(text) == IF text = "  " THEN "" ELSE text

\* the positions of the batch size slider (min 1, max 6) the model moves it to
AppCounts == {1, 2}

\* the hosting environment the App is run in: the host offers both credential
\* functions, so that the check can answer either way or fail and the dialog
\* can be closed either way (without the host the check answers true and the
\* dialog never fails, which this environment shows as well)
AppEnvironments ==
    { [aistudio |-> Some([hasSelectedApiKey |-> TRUE, openSelectKey |-> TRUE])] }

\* what the provider does with a call made for the App
AppOutcomes ==
    { Answered([candidates |-> Some(<<Candidate(<<InlinePart("AAA")>>)>>)]),
      Failed("Requested entity was not found") }

\* messages of an error that rejects generateBatchImages
RejectionMessages == {"Requested entity was not found.", "boom", ""}

\* error.message.includes("Requested entity was not found") on RejectionMessages
IncludesNotFound(message) == message = "Requested entity was not found."

\* Math.round((completedCount / imageCount) * 100)
RoundPercent(completedCount, imageCount) ==
    (200 * completedCount + imageCount) \div (2 * imageCount)

\* the progress callback of handleGenerate, called with completedCount
OnProgressStatus(status, completedCount, imageCount) ==
    [status EXCEPT !.progress = RoundPercent(completedCount, imageCount)]

\* the callback applied to each of the reports of one settlement, in order
RECURSIVE ApplyProgress(_, _, _)
ApplyProgress(status, reports, imageCount) ==
    IF reports = <<>> THEN status
    ELSE ApplyProgress(OnProgressStatus(status, Head(reports), imageCount),
                       Tail(reports), imageCount)

\* MUTANT: setImages(newImages), the gallery is replaced by the new images
PrependImages_Replace(newImages, prev) == newImages

\* setImages(prev => [...newImages, ...prev])
PrependImages(newImages, prev) == newImages \o prev

\* prev.map(img => img.id === id ? { ...img, selected: !img.selected } : img)
ToggleSelected(images, id) ==
    [k \in 1..Len(images) |->
        IF images[k].id = id THEN [images[k] EXCEPT !.selected = ~@] ELSE images[k]]

\* prev.filter(img => !img.selected)
RECURSIVE RemoveSelected(_)
RemoveSelected(images) ==
    IF images = <<>> THEN <<>>
    ELSE IF Head(images).selected
         THEN RemoveSelected(Tail(images))
         ELSE <<Head(images)>> \o RemoveSelected(Tail(images))

\* the invocations of handleGenerate whose generateBatchImages call has not
\* yet been resumed from
BatchesInFlight == {b \in Batches : handler[b] = "generating"}

\* the main screen is rendered (the landing screen is when apiKeyReady is false)
MainScreen == app.apiKeyReady

AppInit ==
    /\ app = AppInitial
    /\ handler = [b \in Batches |-> "idle"]
    /\ editedInFlight = {}
    /\ one = OneIdle
    /\ gate \in {GateIdle(env) : env \in AppEnvironments}
    /\ pc = [b \in Batches |-> "idle"]
    /\ args = [b \in Batches |-> NoArgs]
    /\ completed = [b \in Batches |-> 0]
    /\ promises = [b \in Batches |-> <<>>]
    /\ returned = [b \in Batches |-> <<>>]
    /\ progressLog = [b \in Batches |-> <<>>]
    /\ settled = [b \in Batches |-> <<>>]
    /\ calls = [b \in Batches |-> <<>>]
    /\ now = 0

\* the mount effect: verifyKey gets the answer of checkApiKeySelection
VerifyKey(answer) ==
    /\ gate.check = "idle"
    /\ LET r == CheckApiKeySelection(gate.env, answer)
       IN /\ gate' = [gate EXCEPT !.check = IF r.threw THEN "rejected" ELSE "returned"]
          /\ app' = IF r.threw THEN app ELSE [app EXCEPT !.apiKeyReady = r.value]
    /\ UNCHANGED <<batchVars, now, one, handler, editedInFlight>>

\* handleApiKeySelection from its await on: the state updates it makes
AfterKeySelection(state, threw) ==
    IF threw
    THEN [state EXCEPT !.status.error =
                           Some("Failed to select API key. Please try again.")]
    ELSE [state EXCEPT !.apiKeyReady = TRUE, !.status.error = Null]

\* the credential gate after promptApiKeySelection has run with result r:
\* whether the host's dialog was ever opened (how each dialog ended is kept
\* in the App's state)
GateAfterPrompt(dialog, r) ==
    [gate EXCEPT !.opened = IF r.opened = 1 THEN 1 ELSE @]

\* the user presses "Select API Key" on the landing screen
HandleApiKeySelection(dialog) ==
    /\ ~MainScreen
    /\ LET r == PromptApiKeySelection(gate.env, dialog)
       IN /\ gate' = GateAfterPrompt(dialog, r)
          /\ app' = AfterKeySelection(app, r.threw)
    /\ UNCHANGED <<batchVars, now, one, handler, editedInFlight>>

\* the user edits the prompt field
SetPrompt(text) ==
    /\ MainScreen
    /\ app.prompt # text
    /\ app' = [app EXCEPT !.prompt = text]
    /\ UNCHANGED <<batchVars, now, unitVars, handler, editedInFlight>>

\* the user moves the batch size slider
SetImageCount(imageCount) ==
    /\ MainScreen
    /\ app.config.imageCount # imageCount
    /\ app' = [app EXCEPT !.config.imageCount = imageCount]
    /\ UNCHANGED <<batchVars, now, unitVars, handler, editedInFlight>>

\* the name of the next invocation of handleGenerate
NextInvocation == IF handler["A"] = "idle" THEN "A" ELSE "B"

\* handleGenerate up to its await of generateBatchImages, as invocation b
HandleGenerate(b) ==
    /\ handler[b] = "idle"
    /\ b = NextInvocation
    /\ IF Trim(app.prompt) = ""
       THEN /\ handler' = [handler EXCEPT ![b] = "returned"]
            /\ UNCHANGED <<batchVars, app, gate, editedInFlight>>
       ELSE /\ GenerateBatchImages(b,
                     [prompt |-> app.prompt,
                      systemInstruction |-> app.config.systemPrompt,
                      aspectRatio |-> app.config.aspectRatio],
                     app.config.imageCount, AppCallback)
            /\ IF app.apiKeyReady
               THEN /\ app' = [app EXCEPT !.status = [isLoading |-> TRUE, error |-> Null,
                                                       progress |-> 0]]
                    /\ UNCHANGED gate
               ELSE \E dialog \in Dialogs :
                      LET r == PromptApiKeySelection(gate.env, dialog)
                      IN /\ gate' = GateAfterPrompt(dialog, r)
                         /\ app' = AfterKeySelection(
                                       [app EXCEPT !.status = [isLoading |-> TRUE,
                                                               error |-> Null,
                                                               progress |-> 0]],
                                       r.threw)
            /\ handler' = [handler EXCEPT ![b] = "generating"]
            /\ UNCHANGED editedInFlight
    /\ UNCHANGED <<now, one>>

\* the user clicks the Generate button, which is disabled while a batch is
\* loading or the prompt is blank
ClickGenerate(b) ==
    /\ MainScreen
    /\ ~(app.status.isLoading \/ Trim(app.prompt) = "")
    /\ HandleGenerate(b)

\* the user presses Enter (without Shift) in the prompt field
PressEnter(b) ==
    /\ MainScreen
    /\ HandleGenerate(b)

\* a provider call of a batch started by the App settles; the progress
\* callback updates the status
AppSettle(b, i, outcome) ==
    /\ handler[b] # "idle"
    /\ Settle(b, i, outcome)
    /\ app' = [app EXCEPT !.status =
                   ApplyProgress(@, SubSeq(progressLog'[b], Len(progressLog[b]) + 1,
                                           Len(progressLog'[b])),
                                 args[b].count)]
    /\ UNCHANGED <<unitVars, handler, editedInFlight>>

\* handleGenerate after its await of generateBatchImages: the result is
\* prepended to the gallery, or the catch block reports the error
HandleGenerateResume(b) ==
    /\ handler[b] = "generating"
    /\ pc[b] \in {"done", "rejected"}
    /\ IF pc[b] = "done"
       THEN /\ app' = [app EXCEPT !.images = PrependImages(returned[b], @),
                                   !.status = IdleStatus,
                                   !.prompt = ""]
            /\ handler' = [handler EXCEPT ![b] = "finished"]
       ELSE /\ \E message \in RejectionMessages :
                 app' = IF IncludesNotFound(message)
                        THEN [app EXCEPT !.apiKeyReady = FALSE,
                                         !.status = [isLoading |-> FALSE,
                                                     error |-> Some("API Key invalid or expired. Please re-select."),
                                                     progress |-> 0]]
                        ELSE [app EXCEPT !.status = [isLoading |-> FALSE,
                                                     error |-> Some(IF message # "" THEN message
                                                                    ELSE "Generation failed"),
                                                     progress |-> 0]]
            /\ handler' = [handler EXCEPT ![b] = "failed"]
    /\ UNCHANGED <<batchVars, now, unitVars, editedInFlight>>

\* the user clicks the selection mark of a gallery image
ToggleImageSelection(id) ==
    /\ MainScreen
    /\ \E k \in 1..Len(app.images) : app.images[k].id = id
    /\ app' = [app EXCEPT !.images = ToggleSelected(@, id)]
    /\ editedInFlight' = editedInFlight \cup BatchesInFlight
    /\ UNCHANGED <<batchVars, now, unitVars, handler>>

\* the user clicks the delete button, shown when an image is selected
DeleteSelected ==
    /\ MainScreen
    /\ \E k \in 1..Len(app.images) : app.images[k].selected
    /\ app' = [app EXCEPT !.images = RemoveSelected(@)]
    /\ editedInFlight' = editedInFlight \cup BatchesInFlight
    /\ UNCHANGED <<batchVars, now, unitVars, handler>>

\* the user clicks Clear All and confirms
ClearAll ==
    /\ MainScreen
    /\ app.images # <<>>
    /\ app' = [app EXCEPT !.images = <<>>]
    /\ editedInFlight' = editedInFlight \cup BatchesInFlight
    /\ UNCHANGED <<batchVars, now, unitVars, handler>>

AppNext ==
    \/ \E answer \in GateAnswers : VerifyKey(answer)
    \/ \E dialog \in Dialogs : HandleApiKeySelection(dialog)
    \/ \E text \in AppPrompts : SetPrompt(text)
    \/ \E n \in AppCounts : SetImageCount(n)
    \/ \E b \in Batches : ClickGenerate(b)
    \/ \E b \in Batches : PressEnter(b)
    \/ \E b \in Batches : \E i \in DOMAIN promises[b], outcome \in AppOutcomes :
          AppSettle(b, i, outcome)
    \/ \E b \in Batches : AwaitAll(b) /\ UNCHANGED <<unitVars, appVars>>
    \/ \E b \in Batches : HandleGenerateResume(b)
    \/ \E id \in Batches \X (1..MaxCalls) : ToggleImageSelection(id)
    \/ DeleteSelected
    \/ ClearAll

AppSpec == AppInit /\ [][AppNext]_vars

----------------------------------------------------------------------------
(* Properties *)

\* the sequence 1, 2, ..., n
UpTo(n) == [k \in 1..n |-> k]

\* positions in the settlement history of b at which generateSingleImage succeeded / threw
Successes(b) == {j \in 1..Len(settled[b]) : settled[b][j].ok}
Failures(b) == {j \in 1..Len(settled[b]) : ~settled[b][j].ok}

\* the items of b whose provider call is still pending
Pending(b) == {i \in DOMAIN promises[b] : promises[b][i].state = "pending"}

\* the images generateSingleImage returned to b, in the order the calls settled
RECURSIVE ImagesOf(_)
ImagesOf(history) ==
    IF history = <<>> THEN <<>>
    ELSE IF Head(history).ok
         THEN <<Head(history).img[1]>> \o ImagesOf(Tail(history))
         ELSE ImagesOf(Tail(history))

\* the item of invocation b whose call returned img
ItemOf(b, img) ==
    CHOOSE i \in DOMAIN promises[b] :
        \E j \in Successes(b) : settled[b][j].item = i /\ settled[b][j].img = Some(img)

\* C1: onProgress is called once per settlement, success or failure alike,
\* with the arguments 1, 2, ... in this order, never more than count times,
\* and exactly count times (1..count) by the time the invocation has returned.
C1_ProgressOneToCount ==
    \A b \in Batches :
        /\ progressLog[b] = UpTo(Len(settled[b]))
        /\ Len(progressLog[b]) <= args[b].count
        /\ pc[b] = "done" => progressLog[b] = UpTo(args[b].count)

\* C1 witness: a returned batch of three in which an item failed and an item succeeded
C1_Witness ==
    \E b \in Batches :
        /\ pc[b] = "done" /\ args[b].count = 3
        /\ Successes(b) # {} /\ Failures(b) # {}
        /\ progressLog[b] = <<1, 2, 3>>

\* C2: the list an invocation returns is as long as the number of its items that succeeded.
C2_LengthIsSuccessCount ==
    \A b \in Batches :
        pc[b] = "done" => Len(returned[b]) = Cardinality(Successes(b))

\* C2 witness: a returned batch whose first item failed and whose later item succeeded
C2_Witness ==
    \E b \in Batches :
        /\ pc[b] = "done" /\ args[b].count >= 2
        /\ promises[b][1].value = Null /\ promises[b][2].value # Null
        /\ Len(returned[b]) = Cardinality(Successes(b))
        /\ Len(returned[b]) < args[b].count

\* C3 as claimed: the returned list holds the successful results in settlement order.
C3_SettlementOrder ==
    \A b \in Batches :
        pc[b] = "done" => returned[b] = ImagesOf(settled[b])

\* C3 as amended: the returned list holds the successful results in launch
\* order (the index of the call in the promises array), whatever the order
\* in which the calls settled.
C3_LaunchOrder ==
    \A b \in Batches :
        pc[b] = "done" =>
            \A p, q \in 1..Len(returned[b]) :
                p < q => ItemOf(b, returned[b][p]) < ItemOf(b, returned[b][q])

\* C3 witness: a returned batch in which a later-launched item settled
\* successfully before an earlier-launched successful one
C3_Witness ==
    \E b \in Batches :
        /\ pc[b] = "done"
        /\ \E j, k \in Successes(b) : j < k /\ settled[b][j].item > settled[b][k].item

\* C4: an invocation never rejects, whatever its items' outcomes: no item
\* promise is rejected, an invocation whose items have all settled can return,
\* and every image a successful item produced is in the returned list exactly
\* as generateSingleImage returned it, whichever siblings failed.
C4_NeverRejects ==
    \A b \in Batches :
        /\ pc[b] # "rejected"
        /\ ~AnyRejected(promises[b])
        /\ (pc[b] = "awaiting" /\ Pending(b) = {}) => ENABLED AwaitAll(b)
        /\ pc[b] = "done" =>
              \A j \in Successes(b) :
                  \E p \in 1..Len(returned[b]) : Some(returned[b][p]) = settled[b][j].img

\* C4 witness: a batch returned a successful item's image although a sibling
\* had failed before that item settled
C4_Witness ==
    \E b \in Batches :
        /\ pc[b] = "done"
        /\ \E j \in Failures(b), k \in Successes(b) :
              /\ j < k
              /\ \E p \in 1..Len(returned[b]) : Some(returned[b][p]) = settled[b][k].img

\* a returned invocation has no pending item and has reported progress count
ReturnedAfterAll ==
    \A b \in Batches :
        pc[b] = "done" =>
            /\ Pending(b) = {}
            /\ Len(settled[b]) = args[b].count
            /\ args[b].count > 0 =>
                  /\ progressLog[b] # <<>>
                  /\ progressLog[b][Len(progressLog[b])] = args[b].count

\* C5: generateBatch never returns early: when it has returned, all count
\* calls have settled and onProgress has been called with count, and no
\* onProgress call of that invocation happens after the return.
C5_NeverReturnsEarly ==
    /\ []ReturnedAfterAll
    /\ [][\A b \in Batches : pc[b] = "done" =>
            /\ pc'[b] = "done"
            /\ progressLog'[b] = progressLog[b]
            /\ returned'[b] = returned[b]]_vars

\* C5 witness: a batch of two has returned, its last progress report was 2,
\* while a call of the other invocation is still pending
C5_Witness ==
    \E b, o \in Batches :
        /\ b # o
        /\ pc[b] = "done" /\ args[b].count = 2 /\ progressLog[b] = <<1, 2>>
        /\ Pending(o) # {}

\* C6: every entry of a returned list is the image of exactly one settled,
\* successful call of the same invocation, whose promise is fulfilled; no two
\* entries are the same image.
C6_OnlySettledSuccesses ==
    \A b \in Batches :
        pc[b] = "done" =>
            /\ \A p \in 1..Len(returned[b]) :
                  /\ Cardinality({j \in Successes(b) :
                                    settled[b][j].img = Some(returned[b][p])}) = 1
                  /\ \E i \in DOMAIN promises[b] :
                        /\ promises[b][i] = [state |-> "fulfilled",
                                              value |-> Some(returned[b][p])]
                        /\ i \notin Pending(b)
                        /\ returned[b][p].id = GenerateId(b, i)
            /\ \A p, q \in 1..Len(returned[b]) : p # q => returned[b][p] # returned[b][q]

\* C6 witness: a returned batch with two images and a failed item
C6_Witness ==
    \E b \in Batches :
        /\ pc[b] = "done"
        /\ Len(returned[b]) = 2
        /\ Failures(b) # {}

\* C7: an invocation issues exactly count provider requests, all equal and
\* carrying its own prompt, persona instruction and aspect ratio; the number
\* of requests never changes afterwards, whatever fails, and no item settles twice.
C7_ExactlyCountCalls ==
    \A b \in Batches :
        pc[b] # "idle" =>
            /\ Len(calls[b]) = args[b].count
            /\ Len(promises[b]) = args[b].count
            /\ \A i \in 1..Len(calls[b]) :
                  /\ calls[b][i] = calls[b][1]
                  /\ calls[b][i].aspectRatio = args[b].aspectRatio
                  /\ calls[b][i].text =
                        FullPrompt(args[b].systemInstruction, args[b].prompt)
            /\ Len(settled[b]) <= args[b].count
            /\ \A j, k \in 1..Len(settled[b]) :
                  j # k => settled[b][j].item # settled[b][k].item

\* C7 witness: every item of a batch of two has failed, and still only two
\* requests were issued
C7_Witness ==
    \E b \in Batches :
        /\ args[b].count = 2
        /\ Cardinality(Failures(b)) = 2
        /\ Len(calls[b]) = 2

\* C8: an invocation whose calls all settle returns; while a call is pending
\* the invocation is still waiting (it has neither returned nor given up),
\* and a pending call stays able to settle.
C8_EventuallyReturns ==
    /\ \A b \in Batches : (pc[b] = "awaiting") ~> (pc[b] = "done")
    /\ [](\A b \in Batches : Pending(b) # {} => pc[b] = "awaiting")
    /\ [](\A b \in Batches : \A i \in Pending(b) :
            ENABLED (\E outcome \in ProviderOutcomes : Settle(b, i, outcome)))

\* C8 witness: an invocation with a failed item has returned after all its calls settled
C8_Witness ==
    \E b \in Batches :
        /\ pc[b] = "done" /\ args[b].count >= 2
        /\ Failures(b) # {}
        /\ Len(settled[b]) = args[b].count

\* C9: an invocation with count = 0 issues no provider request, never calls
\* onProgress, can return at once and returns the empty list.
C9_EmptyBatch ==
    \A b \in Batches :
        (pc[b] # "idle" /\ args[b].count = 0) =>
            /\ calls[b] = <<>>
            /\ promises[b] = <<>>
            /\ progressLog[b] = <<>>
            /\ completed[b] = 0
            /\ pc[b] \in {"awaiting", "done"}
            /\ pc[b] = "awaiting" => ENABLED AwaitAll(b)
            /\ returned[b] = <<>>

\* C9 witness: an invocation with count = 0 has returned
C9_Witness ==
    \E b \in Batches : pc[b] = "done" /\ args[b].count = 0 /\ returned[b] = <<>>

\* C10: concurrent invocations share no state: each invocation's counter and
\* progress reports count its own settlements only, a step that settles no
\* call of an invocation leaves its counter and reports alone, and a returned
\* list holds only images of the invocation's own calls.
C10_Independent ==
    /\ [](\A b \in Batches :
            /\ completed[b] = Len(settled[b])
            /\ progressLog[b] = UpTo(completed[b])
            /\ \A p \in 1..Len(returned[b]) :
                  /\ returned[b][p].id[1] = b
                  /\ returned[b][p].prompt = args[b].prompt
                  /\ returned[b][p].aspectRatio = args[b].aspectRatio)
    /\ [][\A b \in Batches :
            (pc[b] # "idle" /\ settled'[b] = settled[b]) =>
                /\ completed'[b] = completed[b]
                /\ progressLog'[b] = progressLog[b]
                /\ promises'[b] = promises[b]]_vars

\* C10 witness: both invocations are in flight with calls still pending,
\* one call of each has settled, and each has reported progress 1
C10_Witness ==
    /\ \A b \in Batches :
          /\ pc[b] = "awaiting"
          /\ Len(settled[b]) = 1
          /\ progressLog[b] = <<1>>
    /\ \E b \in Batches : Pending(b) # {}

\* C11: every image generateBatch returns, every image generateSingleImage
\* hands to a batch and every image a direct call returns carries the aspect
\* ratio and the prompt of the request, the prompt without the persona text.
C11_RequestedRatioAndPrompt ==
    /\ \A b \in Batches :
          /\ \A p \in 1..Len(returned[b]) :
                /\ returned[b][p].aspectRatio = args[b].aspectRatio
                /\ returned[b][p].prompt = args[b].prompt
          /\ \A j \in Successes(b) :
                /\ settled[b][j].img[1].aspectRatio = args[b].aspectRatio
                /\ settled[b][j].img[1].prompt = args[b].prompt
    /\ one.img # Null =>
          /\ one.img[1].aspectRatio = one.aspectRatio
          /\ one.img[1].prompt = one.prompt

\* C11 witness: a batch requested with a persona and the ratio 16:9 has
\* returned an image, and the text sent to the provider was not the raw prompt
C11_Witness ==
    \E b \in Batches :
        /\ pc[b] = "done" /\ returned[b] # <<>>
        /\ args[b].systemInstruction # ""
        /\ args[b].aspectRatio = "16:9"
        /\ calls[b][1].text # args[b].prompt
        /\ returned[b][1].prompt = "a dog"

\* the provider answered the direct call with a response whose first candidate has a parts list
OneHasParts ==
    /\ one.outcome # Null
    /\ ~one.outcome[1].rejects
    /\ one.outcome[1].response.candidates # Null
    /\ one.outcome[1].response.candidates[1] # <<>>
    /\ one.outcome[1].response.candidates[1][1].content # Null
    /\ one.outcome[1].response.candidates[1][1].content[1].parts # Null

\* that parts list
OneParts == one.outcome[1].response.candidates[1][1].content[1].parts[1]

\* the part carries non-empty inline image data
CarriesData(part) == part.inlineData # Null /\ part.inlineData[1].data # ""

\* C12: when the response has content parts and none of them carries non-empty
\* inline image data, generateSingleImage throws with the message "No image
\* data found in response" and returns nothing; it never returns an image
\* with an empty payload.
C12_NoImageDataThrows ==
    /\ (OneHasParts /\ \A k \in 1..Len(OneParts) : ~CarriesData(OneParts[k])) =>
          /\ one.pc = "threw"
          /\ one.img = Null
          /\ one.message = "No image data found in response"
    /\ one.pc = "returned" =>
          /\ one.img # Null
          /\ one.img[1].base64 # "data:image/png;base64,"

\* C12 witness: the response held two text parts and no image, and the call threw
C12_Witness ==
    /\ OneHasParts
    /\ Len(OneParts) = 2
    /\ \A k \in 1..Len(OneParts) : ~CarriesData(OneParts[k])
    /\ one.pc = "threw"


\* C13: the text sent to the provider is the persona instruction, then
\* "\n\nUser Request: ", then the prompt when the persona instruction is not
\* empty, and the prompt alone when it is empty.
C13_CombinedText ==
    one.request # Null =>
        /\ one.systemInstruction = "" => one.request[1].text = one.prompt
        /\ one.systemInstruction # "" =>
              one.request[1].text =
                  one.systemInstruction \o "\n\nUser Request: " \o one.prompt
        /\ (one.systemInstruction = "Be vivid." /\ one.prompt = "a cat") =>
              one.request[1].text = "Be vivid.\n\nUser Request: a cat"

\* C13 witness: a request went out for the prompt "a cat" with the persona "Be vivid."
C13_Witness ==
    /\ one.pc = "pending"
    /\ one.systemInstruction = "Be vivid." /\ one.prompt = "a cat"
    /\ one.request[1].text = "Be vivid.\n\nUser Request: a cat"


\* the environment exposes window.aistudio.hasSelectedApiKey / openSelectKey
CanCheck == gate.env.aistudio # Null /\ gate.env.aistudio[1].hasSelectedApiKey
CanPrompt == gate.env.aistudio # Null /\ gate.env.aistudio[1].openSelectKey

\* C14: without the capability the credential check returns true; with it the
\* check returns what the gate answers (and fails only when the gate does);
\* without the capability the credential prompt opens nothing and completes.
C14_CredentialFallback ==
    /\ (gate.check # "idle" /\ ~CanCheck) => (gate.check = "returned" /\ gate.value = TRUE)
    /\ (gate.check # "idle" /\ CanCheck) =>
          /\ gate.answer = "true" => (gate.check = "returned" /\ gate.value = TRUE)
          /\ gate.answer = "false" => (gate.check = "returned" /\ gate.value = FALSE)
          /\ gate.answer = "rejects" => gate.check = "rejected"
    /\ (gate.prompt # "idle" /\ ~CanPrompt) => (gate.prompt = "returned" /\ gate.opened = 0)
    /\ (gate.prompt # "idle" /\ CanPrompt) => gate.opened = 1

\* C14 witness: without window.aistudio the check has returned true although
\* the gate would have answered false, and the prompt has completed
C14_Witness ==
    /\ gate.env = NoAistudio
    /\ gate.check = "returned" /\ gate.answer = "false" /\ gate.value = TRUE
    /\ gate.prompt = "returned" /\ gate.opened = 0


\* C15: the counter of an invocation equals the number of its calls that have
\* settled and never exceeds count; a settlement raises the counter of its own
\* invocation by exactly one and reports exactly the new value, in the same
\* step, and touches no other invocation's counter or reports.
C15_CounterCountsSettlements ==
    /\ [](\A b \in Batches :
            /\ completed[b] = Len(settled[b])
            /\ completed[b] = Len(promises[b]) - Cardinality(Pending(b))
            /\ completed[b] <= args[b].count)
    /\ [][\A b \in Batches :
            settled'[b] # settled[b] =>
                /\ Len(settled'[b]) = Len(settled[b]) + 1
                /\ completed'[b] = completed[b] + 1
                /\ progressLog'[b] = Append(progressLog[b], completed'[b])
                /\ \A o \in Batches \ {b} :
                      completed'[o] = completed[o] /\ progressLog'[o] = progressLog[o]]_vars

\* C15 witness: two of the three calls of an invocation have settled, one of
\* them failed, one is pending, and the counter is 2
C15_Witness ==
    \E b \in Batches :
        /\ pc[b] = "awaiting" /\ args[b].count = 3
        /\ Cardinality(Pending(b)) = 1
        /\ Failures(b) # {}
        /\ completed[b] = 2


\* C16 as claimed: whatever onProgress does, throwing included, every
\* settlement raises the counter exactly once and calls onProgress exactly
\* once, no item promise and no invocation rejects, and every image a
\* successful item produced is in the returned list.
C16_ThrowingCallbackTolerated ==
    \A b \in Batches :
        /\ completed[b] = Len(settled[b])
        /\ Len(progressLog[b]) = Len(settled[b])
        /\ ~AnyRejected(promises[b])
        /\ pc[b] # "rejected"
        /\ pc[b] = "done" =>
              \A j \in Successes(b) :
                  \E p \in 1..Len(returned[b]) : Some(returned[b][p]) = settled[b][j].img


\* C17: when the response holds parts, the call returns exactly when one of
\* them carries inline image data, and the payload is the data of the first
\* such part in list order, whatever the parts before and after it hold.
C17_FirstImagePartWins ==
    /\ one.pc = "returned" => OneHasParts
    /\ (OneHasParts /\ one.pc # "pending") =>
          IF \E k \in 1..Len(OneParts) : CarriesData(OneParts[k])
          THEN /\ one.pc = "returned"
               /\ \E k \in 1..Len(OneParts) :
                     /\ CarriesData(OneParts[k])
                     /\ \A j \in 1..(k - 1) : ~CarriesData(OneParts[j])
                     /\ one.img[1].base64 =
                           "data:image/png;base64," \o OneParts[k].inlineData[1].data
          ELSE one.pc = "threw"

\* C17 witness: of four parts the third is the first with image data, a part
\* with other image data follows it, and the payload is the third part's
C17_Witness ==
    /\ one.pc = "returned" /\ OneHasParts
    /\ Len(OneParts) = 4
    /\ ~CarriesData(OneParts[1]) /\ ~CarriesData(OneParts[2])
    /\ CarriesData(OneParts[3]) /\ CarriesData(OneParts[4])
    /\ one.img[1].base64 = "data:image/png;base64,BBB"


\* C18: a provider error, a malformed response and a response without image
\* data all make generateSingleImage throw, with no value returned; the
\* message is the underlying error's when that is not empty and "Failed to
\* generate image" otherwise.
C18_FailureCarriesMessage ==
    /\ one.pc = "threw" => (one.img = Null /\ one.message # "")
    /\ (one.outcome # Null /\ one.outcome[1].rejects) =>
          /\ one.pc = "threw"
          /\ one.outcome[1].message # "" => one.message = one.outcome[1].message
          /\ one.outcome[1].message = "" => one.message = "Failed to generate image"
    /\ (one.outcome # Null /\ ~one.outcome[1].rejects
          /\ one.outcome[1].response.candidates = Some(<<>>)) =>
          /\ one.pc = "threw"
          /\ one.message = "Cannot read properties of undefined (reading 'content')"
    /\ (one.pc = "threw" /\ ~one.outcome[1].rejects
          /\ one.outcome[1].response.candidates # Some(<<>>)
          /\ one.outcome[1].response.candidates # Some(<<[content |-> Null]>>)) =>
          one.message = "No image data found in response"

\* C18 witness: the provider call rejected with an error without a message
\* and the call threw with the fallback message
C18_Witness ==
    /\ one.pc = "threw"
    /\ one.outcome[1].rejects /\ one.outcome[1].message = ""
    /\ one.message = "Failed to generate image"


\* C19: in the application a batch whose items fail surfaces no error.
\* No invocation of handleGenerate ever reaches its catch block; no step of
\* handleGenerate or of the batch it started changes apiKeyReady; and the step
\* that finishes handleGenerate leaves status.error null, isLoading false and
\* progress 0, and prepends the returned images, so that the gallery grows
\* by exactly the number of items that succeeded.
C19_FailuresNotSurfaced ==
    [][\A b \in Batches :
          /\ handler'[b] # "failed"
          /\ (handler' # handler \/ batchVars' # batchVars)
                => app'.apiKeyReady = app.apiKeyReady
          /\ (handler[b] = "generating" /\ handler'[b] = "finished") =>
                /\ app'.status.error = Null
                /\ app'.status.isLoading = FALSE
                /\ app'.status.progress = 0
                /\ Len(app'.images) = Len(app.images) + Cardinality(Successes(b))
                /\ \A p \in 1..Len(app.images) :
                      app'.images[Len(app'.images) - Len(app.images) + p] = app.images[p]]_vars

\* C19 witness: handleGenerate has finished a batch of two items that both
\* failed on an invalid credential; no error is shown, nothing is loading,
\* the credential is still taken as ready and the gallery is still empty
C19_Witness ==
    \E b \in Batches :
        /\ handler[b] = "finished"
        /\ args[b].count = 2
        /\ Cardinality(Failures(b)) = 2
        /\ \A j \in Failures(b) : settled[b][j].img = Null
        /\ app.status = IdleStatus
        /\ app.apiKeyReady
        /\ app.images = <<>>
        /\ \A c \in Batches \ {b} : handler[c] = "idle"

\* every image the generator has produced or the orchestrator has returned
ProducedImages ==
    UNION {{returned[b][p] : p \in 1..Len(returned[b])} : b \in Batches}
    \cup UNION {{settled[b][j].img[1] : j \in Successes(b)} : b \in Batches}
    \cup {one.img[k] : k \in 1..Len(one.img)}

\* C20 as claimed: the fields of a produced image are exactly the identifier,
\* the payload, the prompt, the timestamp and the aspect ratio.
C20_NoPresentationFlag ==
    \A img \in ProducedImages :
        DOMAIN img = {"id", "base64", "prompt", "timestamp", "aspectRatio"}

\* C20 as amended: the fields of a produced image are the identifier, the
\* payload, the prompt, the timestamp, the aspect ratio and the flag
\* `selected`, which the generator sets to false.
C20_SelectedFalse ==
    \A img \in ProducedImages :
        /\ DOMAIN img = {"id", "base64", "prompt", "timestamp", "selected", "aspectRatio"}
        /\ img.selected = FALSE

\* C20 witness: an invocation has returned an image whose selected flag is false
C20_Witness ==
    \E b \in Batches :
        /\ pc[b] = "done" /\ returned[b] # <<>>
        /\ "selected" \in DOMAIN returned[b][1]
        /\ returned[b][1].selected = FALSE


\* C21 as claimed: the application serializes its batches. While
\* status.isLoading is true no step starts another generateBatchImages, and
\* at most one batch is in flight at any time.
C21_BatchesSerialized ==
    [][/\ app.status.isLoading =>
              \A b \in Batches : handler[b] = "idle" => handler'[b] = "idle"
       /\ Cardinality(BatchesInFlight') <= 1]_vars


\* C22 as claimed: in every reachable state of the application
\* status.progress is an integer in 0..100, and it is 0 whenever
\* status.isLoading is false.
C22_ProgressOnlyWhileLoading ==
    /\ app.status.progress \in 0..100
    /\ ~app.status.isLoading => app.status.progress = 0


\* C23: completing a batch only prepends. The step that finishes
\* handleGenerate makes the gallery the returned images, in returned order,
\* followed by the gallery as it stood just before the step, selection flags
\* included and with every toggle or deletion made during the flight kept; and
\* no other step of a batch (its start, a settlement, its return) changes the
\* gallery.
C23_OnlyPrepends ==
    [][/\ \A b \in Batches :
             (handler[b] = "generating" /\ handler'[b] = "finished")
                => app'.images = returned[b] \o app.images
       /\ (batchVars' # batchVars) => app'.images = app.images]_vars

\* C23 witness: a batch has finished during whose flight the user edited the
\* gallery; it returned an image, which now stands in front of what is left
\* of the other batch's two images: one was deleted, the other is selected
C23_Witness ==
    \E b \in Batches : \E c \in Batches \ {b} :
        /\ handler[b] = "finished" /\ handler[c] = "finished"
        /\ b \in editedInFlight
        /\ Len(returned[b]) = 1 /\ Len(returned[c]) = 2
        /\ Len(app.images) = 2
        /\ app.images[1] = returned[b][1]
        /\ app.images[2].id = returned[c][2].id
        /\ app.images[2].selected


\* the texts of AppPrompts that are empty or hold white space only
BlankPrompts == {"", "  "}

\* C24: handleGenerate invoked with an empty or whitespace-only prompt
\* returns at once: the step makes no provider call, starts no batch and
\* leaves status, gallery, prompt and apiKeyReady as they were; and no batch
\* the application starts carries such a prompt.
C24_BlankPromptIgnored ==
    [][\A b \in Batches :
          /\ (handler[b] = "idle" /\ handler'[b] # "idle" /\ app.prompt \in BlankPrompts)
                => /\ handler'[b] = "returned"
                   /\ batchVars' = batchVars
                   /\ app' = app
          /\ pc'[b] # "idle" => args'[b].prompt \notin BlankPrompts]_vars

\* C24 witness: while a batch of two was loading with one item settled,
\* handleGenerate was invoked with the prompt of two spaces and returned at
\* its first line: it made no call, the status still shows the loading batch
\* at 50 percent and the prompt is still there
C24_Witness ==
    \E b \in Batches : \E c \in Batches \ {b} :
        /\ handler[b] = "returned"
        /\ pc[b] = "idle" /\ calls[b] = <<>> /\ promises[b] = <<>>
        /\ handler[c] = "generating" /\ args[c].count = 2 /\ Len(settled[c]) = 1
        /\ app.prompt = "  "
        /\ app.status = [isLoading |-> TRUE, error |-> Null, progress |-> 50]
        /\ app.apiKeyReady

====
